---- MODULE Spec2Model ----
(***************************************************************************)
(* Availability and booking-transaction engine of booking-app-mvp.         *)
(*                                                                         *)
(* Time is counted in minutes.  An instant is an integer number of minutes *)
(* since the UTC epoch day 0 (a Thursday); a local time of day is a number *)
(* of minutes since local midnight.  The store (bookings, staff rows, row  *)
(* locks) is shared by concurrent requests; each request has its own       *)
(* transaction whose writes become visible at COMMIT.                      *)
(***************************************************************************)
EXTENDS Integers, Sequences, FiniteSets, TLC

----------------------------------------------------------------------------
(* Bounds of the model *)

MaxReq == 2
MaxBookings == 3

----------------------------------------------------------------------------
(* Program constants and fixtures *)

DayMinutes == 1440

BusinessTz == "Asia/Dhaka"
TzNames == {"Asia/Dhaka", "UTC"}
BadTz == "Bad/Zone"

\* moment.tz.zone(name): null for a name without zone data
tzZone(name) == name \in TzNames

\* UTC offset of a zone in minutes (both zones are without DST)
tzOffset(name) == IF name = "Asia/Dhaka" THEN 360 ELSE 0

\* m.clone().tz(name): local wall-clock minutes; a name without zone data
\* leaves the moment in UTC
toLocal(t, name) == IF tzZone(name) THEN t + tzOffset(name) ELSE t

\* moment.tz(`${date} ${time}`, fmt, name).utc(): instant of a wall-clock time
fromLocal(date, time, name) == date * DayMinutes + time - tzOffset(name)

\* m.isoWeekday(): 1 = Monday .. 7 = Sunday; day 0 is a Thursday
isoWeekday(localT) == (((localT \div DayMinutes) + 3) % 7) + 1

\* m.clone().startOf('day')
startOfDay(localT) == (localT \div DayMinutes) * DayMinutes

StaffIds == {1, 2}
MissingStaff == 3
ServiceIds == {1, 2}
InactiveService == 3
BookingIds == 1..MaxBookings
Req == 1..MaxReq

\* services table: duration_minutes of the active services
serviceDuration(sv) == IF sv = 1 THEN 360 ELSE 720
serviceActive(sv) == sv \in ServiceIds

----------------------------------------------------------------------------
(* timeUtils.ts *)

\* a text "HH:MM" as the parts of timeStr.split(':'), each part with the
\* result of parseInt (num = FALSE stands for NaN)
TimePart(v) == [num |-> TRUE, val |-> v]
TimeStr(h, m) == [isStr |-> TRUE, parts |-> <<TimePart(h), TimePart(m)>>]

timeToMinutes(timeStr) ==
    IF ~timeStr.isStr THEN -1
    ELSE IF Len(timeStr.parts) < 2 THEN -1
    ELSE LET hours == timeStr.parts[1]
             minutes == timeStr.parts[2]
         IN IF ~hours.num \/ ~minutes.num
               \/ hours.val < 0 \/ hours.val > 23
               \/ minutes.val < 0 \/ minutes.val > 59
            THEN -1
            ELSE hours.val * 60 + minutes.val

----------------------------------------------------------------------------
(* Reasons returned by checkAvailability *)

R_CONFIG == "Server configuration error [Timezone]."
R_STAFF == "Staff member not found or inactive."
R_NOWORK == "Staff member does not work on the selected day."
R_OUTSIDE == "Time slot falls outside staff working hours"
R_DB == "Conflicts with another booking in the schedule."
R_VERIFY == "Could not verify Google Calendar availability."
R_GCAL == "Conflicts with an event in the staff's Google Calendar."
R_INTERNAL == "An internal error occurred while checking availability."

----------------------------------------------------------------------------
(* State *)

VARIABLES
    bookings,    \* bookings table (committed rows): id -> row
    nextId,      \* bookings_booking_id_seq
    staffRow,    \* staff table: id -> [is_active, token, calId]
    staffLock,   \* row lock of a staff row: holder request or 0
    svcLock,     \* row lock of a services row: holder request or 0
    bkLock,      \* row lock of a bookings row: holder request or 0
    endLocalBound, \* whether `newEndTimeLocal` resolves inside checkAvailability
    req,         \* the requests in flight: their inputs, position and locals
    customers,   \* customers table (committed rows): the emails as stored
    ca           \* last direct call of a function of the service: inputs and result

vars == <<bookings, nextId, staffRow, staffLock, svcLock, bkLock,
          endLocalBound, req, ca, customers>>

\* notes: the number of entries appended to the notes column
NoRow == [staff |-> 0, service |-> 0, start |-> 0, end |-> 0,
          status |-> "absent", gev |-> FALSE, notes |-> 0]

\* values of bookings.status
Statuses == {"scheduled", "confirmed", "completed", "cancelled", "no-show"}

TerminalStatuses_cancelledOnly == {"cancelled"}

TerminalStatuses == {"cancelled", "completed", "no-show"}

----------------------------------------------------------------------------
(* availabilityService.ts: data access helpers *)

NoDetails == [found |-> FALSE, is_active |-> FALSE,
              is_google_connected |-> FALSE, google_calendar_id |-> FALSE]

\* getStaffDetails: the row as StaffDetails, null when there is no row or
\* the query fails
getStaffDetails(staffId, rows, q) ==
    IF q = "fail" \/ staffId \notin DOMAIN rows THEN NoDetails
    ELSE [found |-> TRUE,
          is_active |-> rows[staffId].is_active,
          is_google_connected |-> rows[staffId].token,
          google_calendar_id |-> rows[staffId].calId]

NoInterval == [found |-> FALSE, start |-> TimeStr(0, 0), end |-> TimeStr(0, 0)]

\* staff_working_hours rows, as to_char(.., 'HH24:MI') renders them
workingHoursRow(staffId, dayOfWeek) ==
    IF staffId = 1 /\ dayOfWeek = 4
    THEN [found |-> TRUE, start |-> TimeStr(6, 0), end |-> TimeStr(18, 0)]
    ELSE IF staffId = 2 /\ dayOfWeek = 4
    THEN [found |-> TRUE, start |-> TimeStr(6, 0), end |-> TimeStr(12, 0)]
    ELSE NoInterval

\* getWorkingInterval: null when there is no row or the query fails
getWorkingInterval(staffId, dayOfWeek, q) ==
    IF q = "fail" THEN NoInterval ELSE workingHoursRow(staffId, dayOfWeek)

\* tstzrange(a1, a2, '[)') && tstzrange(b1, b2, '[)')
rangesOverlap(a1, a2, b1, b2) == a1 < b2 /\ b1 < a2

getDbBusyBlocks_noExclude(staffId, startT, endT, rows, q, bookingIdToExclude) ==
    IF q = "fail" THEN {}
    ELSE {[start |-> rows[b].start, end |-> rows[b].end] :
            b \in {x \in DOMAIN rows :
                     /\ rows[x].staff = staffId
                     /\ rows[x].status = "confirmed"
                     /\ rangesOverlap(startT, endT, rows[x].start, rows[x].end)}}

getDbBusyBlocks_anyStatus(staffId, startT, endT, rows, q, bookingIdToExclude) ==
    IF q = "fail" THEN {}
    ELSE {[start |-> rows[b].start, end |-> rows[b].end] :
            b \in {x \in DOMAIN rows :
                     /\ rows[x].staff = staffId
                     /\ rows[x].status # "absent"
                     /\ rangesOverlap(startT, endT, rows[x].start, rows[x].end)
                     /\ (bookingIdToExclude # 0 => x # bookingIdToExclude)}}

\* getDbBusyBlocks: confirmed rows of the staff overlapping [startT, endT),
\* without the excluded booking; an empty list when the query fails
getDbBusyBlocks(staffId, startT, endT, rows, q, bookingIdToExclude) ==
    IF q = "fail" THEN {}
    ELSE {[start |-> rows[b].start, end |-> rows[b].end] :
            b \in {x \in DOMAIN rows :
                     /\ rows[x].staff = staffId
                     /\ rows[x].status = "confirmed"
                     /\ rangesOverlap(startT, endT, rows[x].start, rows[x].end)
                     /\ (bookingIdToExclude # 0 => x # bookingIdToExclude)}}

\* outcome of getGoogleCalendarClient: the token is read from the staff
\* row through the pool; without a token there is no client
googleClientOutcome(tokenNow, g) ==
    IF ~tokenNow THEN "noclient"
    ELSE IF g.kind \in {"noclient", "invalid_grant"} THEN g.kind
    ELSE "client"

NullBlocks == [isNull |-> TRUE, blocks |-> {}, asked |-> FALSE, grant |-> FALSE]
Blocks(B, asked) == [isNull |-> FALSE, blocks |-> B, asked |-> asked, grant |-> FALSE]

getGcalBusyBlocks_failOpen(staffDetails, tokenNow, g) ==
    IF ~staffDetails.found \/ ~staffDetails.is_google_connected
    THEN Blocks({}, FALSE)
    ELSE LET c == googleClientOutcome(tokenNow, g)
         IN IF c # "client"
            THEN [Blocks({}, TRUE) EXCEPT !.grant = (c = "invalid_grant")]
            ELSE IF g.kind = "queryfail" THEN Blocks({}, TRUE)
            ELSE Blocks(g.busy, TRUE)

getGcalBusyBlocks_askAlways(staffDetails, tokenNow, g) ==
    LET c == googleClientOutcome(tokenNow, g)
    IN IF c # "client"
       THEN [NullBlocks EXCEPT !.asked = TRUE, !.grant = (c = "invalid_grant")]
       ELSE IF g.kind = "queryfail" THEN [NullBlocks EXCEPT !.asked = TRUE]
       ELSE Blocks(g.busy, TRUE)

\* getGcalBusyBlocks: [] without asking when the staff is not connected,
\* null when no client can be obtained or the free/busy query throws.
\* asked: getGoogleCalendarClient was called; grant: it met invalid_grant
\* and issues the UPDATE that clears the token through the pool
getGcalBusyBlocks(staffDetails, tokenNow, g) ==
    IF ~staffDetails.found \/ ~staffDetails.is_google_connected
    THEN Blocks({}, FALSE)
    ELSE LET c == googleClientOutcome(tokenNow, g)
         IN IF c # "client"
            THEN [NullBlocks EXCEPT !.asked = TRUE, !.grant = (c = "invalid_grant")]
            ELSE IF g.kind = "queryfail" THEN [NullBlocks EXCEPT !.asked = TRUE]
            ELSE Blocks(g.busy, TRUE)

----------------------------------------------------------------------------
(* availabilityService.ts: checkAvailability *)

\* options without pre-fetched staff details / without an excluded booking
NoExclude == 0

CheckResult_allAvailable(av, rs, cl, ab, gr) ==
    [isAvailable |-> TRUE, reasons |-> rs, calls |-> cl, aborted |-> ab, grant |-> gr]

CheckResult(av, rs, cl, ab, gr) ==
    [isAvailable |-> av, reasons |-> rs, calls |-> cl, aborted |-> ab, grant |-> gr]

NoResult == CheckResult(FALSE, <<>>, <<>>, FALSE, FALSE)

\* outcomes of the collaborators during one call
QueryOutcomes == {"ok", "fail"}
BusyChoices == {{}, {[start |-> 0, end |-> 360]}, {[start |-> 360, end |-> 720]}}
GcalOutcomes ==
    {[kind |-> k, busy |-> {}] : k \in {"noclient", "invalid_grant", "queryfail"}}
    \cup {[kind |-> "ok", busy |-> B] : B \in BusyChoices}

\* the outcomes met by one call from inside a request: every calendar
\* outcome with the queries succeeding, and each query failing
CallOutcomes ==
    {[whQ |-> "ok", dbQ |-> "ok", gcal |-> g] : g \in GcalOutcomes}
    \cup {[whQ |-> "fail", dbQ |-> "ok", gcal |-> [kind |-> "ok", busy |-> {}]],
          [whQ |-> "ok", dbQ |-> "fail", gcal |-> [kind |-> "ok", busy |-> {}]]}

\* process.env.BUSINESS_TIMEZONE is unset or has no zone data
configError(envTz) == ~tzZone(envTz)

staffInvalid_foundOnly(sd) == ~sd.found

\* !staffDetails || !staffDetails.is_active
staffInvalid(sd) == ~sd.found \/ ~sd.is_active

\* bookingStartMins < workStartMins || bookingEndMins > workEndMins
outsideHours(bookingStartMins, bookingEndMins, workStartMins, workEndMins) ==
    bookingStartMins < workStartMins \/ bookingEndMins > workEndMins

stageFailed_never(reasons) == FALSE

\* if (reasons.length > 0) return { isAvailable: false, reasons }
stageFailed(reasons) == Len(reasons) > 0

someConflict_closed(blocks, newStartTime, newEndTime) ==
    \E block \in blocks : block.start <= newEndTime /\ block.end >= newStartTime

\* blocks.some(block => block.start.isBefore(newEndTime) && block.end.isAfter(newStartTime))
someConflict(blocks, newStartTime, newEndTime) ==
    \E block \in blocks : block.start < newEndTime /\ block.end > newStartTime

internalError_noReason(cl, ab) == CheckResult(FALSE, <<>>, cl, ab, FALSE)

\* the catch block of checkAvailability
internalError(cl, ab) == CheckResult(FALSE, <<R_INTERNAL>>, cl, ab, FALSE)

\* o: the options; e: the environment and the collaborators' outcomes;
\* bk, st: the bookings and staff rows the call's queries see
checkAvailability(o, e, bk, st) ==
    IF configError(e.envTz)
    THEN CheckResult(FALSE, <<R_CONFIG>>, <<>>, FALSE, FALSE)
    ELSE
    LET newStartTime == o.startT
        newEndTime == o.endT
        fetched == ~o.staffDetails.found
        staffDetails == IF fetched THEN getStaffDetails(o.staffId, st, e.staffQ)
                        ELSE o.staffDetails
        cl1 == IF fetched THEN <<"staff">> ELSE <<>>
        ab1 == fetched /\ e.staffQ = "fail"
    IN
    IF staffInvalid(staffDetails)
    THEN CheckResult(FALSE, <<R_STAFF>>, cl1, ab1, FALSE)
    ELSE
    LET newStartTimeLocal == toLocal(newStartTime, o.bookingTimezone)
        localDayOfWeek == isoWeekday(newStartTimeLocal)
        localDayStart == startOfDay(newStartTimeLocal)
        workingInterval == getWorkingInterval(o.staffId, localDayOfWeek, e.whQ)
        cl2 == Append(cl1, "hours")
        ab2 == ab1 \/ e.whQ = "fail"
    IN
    IF ~workingInterval.found
    THEN CheckResult(FALSE, <<R_NOWORK>>, cl2, ab2, FALSE)
    ELSE
    \* line 692 reads `newEndTimeLocal`, which this function never declares:
    \* without a binding the read throws and the catch block answers
    IF ~e.endLocalBound
    THEN internalError(cl2, ab2)
    ELSE
    LET workStartMins == timeToMinutes(workingInterval.start)
        workEndMins == timeToMinutes(workingInterval.end)
        newEndTimeLocal == toLocal(newEndTime, o.bookingTimezone)
        bookingStartMins == newStartTimeLocal - localDayStart
        bookingEndMins == newEndTimeLocal - localDayStart
        reasons2 == IF outsideHours(bookingStartMins, bookingEndMins,
                                    workStartMins, workEndMins)
                    THEN <<R_OUTSIDE>> ELSE <<>>
    IN
    IF stageFailed(reasons2)
    THEN CheckResult(FALSE, reasons2, cl2, ab2, FALSE)
    ELSE
    LET dbBusyBlocks == getDbBusyBlocks(o.staffId, newStartTime, newEndTime,
                                        bk, e.dbQ, o.bookingIdToExclude)
        dbConflict == someConflict(dbBusyBlocks, newStartTime, newEndTime)
        reasons3 == IF dbConflict THEN Append(reasons2, R_DB) ELSE reasons2
        cl3 == Append(cl2, "db")
        ab3 == ab2 \/ e.dbQ = "fail"
    IN
    IF stageFailed(reasons3)
    THEN CheckResult(FALSE, reasons3, cl3, ab3, FALSE)
    ELSE
    LET tokenNow == o.staffId \in DOMAIN st /\ st[o.staffId].token
        gcalBusyBlocks == getGcalBusyBlocks(staffDetails, tokenNow, e.gcal)
        cl4 == IF gcalBusyBlocks.asked THEN Append(cl3, "gcal") ELSE cl3
        reasons4 ==
            IF gcalBusyBlocks.isNull THEN Append(reasons3, R_VERIFY)
            ELSE IF someConflict(gcalBusyBlocks.blocks, newStartTime, newEndTime)
                 THEN Append(reasons3, R_GCAL)
                 ELSE reasons3
    IN CheckResult(Len(reasons4) = 0, reasons4, cl4, ab3, gcalBusyBlocks.grant)

----------------------------------------------------------------------------
(* Requests *)

\* no email address
NoEmail == ""

\* lower($1) of the customer lookup
lower(email) == IF email = "ANN@x" THEN "ann@x" ELSE email

\* SELECT customer_id FROM customers WHERE lower(email) = lower($1) finds a row
customerFound(cust, email) == \E c \in cust : lower(c) = lower(email)

insertCustomer_onPool(cust, email) == cust \cup {email}

\* INSERT INTO customers runs on the transaction's client: the committed
\* rows are as before until COMMIT
insertCustomer(cust, email) == cust

\* the pending customer row of request q applied to the committed rows
applyCustomer(cust, q) == IF q.newCust = NoEmail THEN cust ELSE cust \cup {q.newCust}

IdleReq ==
    [kind |-> "none", pc |-> "idle", staff |-> 0, service |-> 0,
     startT |-> 0, endT |-> 0, bid |-> 0, badDate |-> FALSE,
     res |-> NoResult, write |-> "none", gev |-> FALSE,
     mirror |-> "none", status |-> 0, warn |-> FALSE, committed |-> FALSE,
     saw |-> {}, selfOnly |-> FALSE, conc |-> FALSE, tz |-> BusinessTz,
     newCust |-> NoEmail]

\* inputs of the requests; a field of the request body is drawn in the step
\* of the handler that first reads it
LocalTimes == {360, 720}
CreateInputs ==
    {[staff |-> 1, service |-> sv, time |-> t, tz |-> BusinessTz, badDate |-> FALSE,
      email |-> IF sv = 1 THEN "bob@x" ELSE "ann@x"] :
        sv \in ServiceIds, t \in LocalTimes}
    \cup {[staff |-> 2, service |-> 1, time |-> 360, tz |-> "UTC", badDate |-> FALSE,
           email |-> "ann@x"],
          [staff |-> MissingStaff, service |-> 1, time |-> 360, tz |-> BusinessTz,
           badDate |-> FALSE, email |-> "bob@x"],
          [staff |-> 1, service |-> InactiveService, time |-> 360, tz |-> BusinessTz,
           badDate |-> FALSE, email |-> "bob@x"],
          [staff |-> 1, service |-> 1, time |-> 360, tz |-> BadTz, badDate |-> FALSE,
           email |-> "bob@x"],
          [staff |-> 1, service |-> 1, time |-> 360, tz |-> BusinessTz, badDate |-> TRUE,
           email |-> "bob@x"]}

\* the row lock is free for request r (FOR UPDATE waits for the holder's
\* COMMIT or ROLLBACK)
rowFree_ignoreLock(lock, r) == TRUE

rowFree(lock, r) == lock = 0 \/ lock = r

locked_notTaken(locks, x, r) == locks

\* SELECT .. FOR UPDATE takes the row lock of row x for the transaction of r
locked(locks, x, r) == [locks EXCEPT ![x] = r]

\* ROLLBACK or COMMIT releases every row lock of the transaction
released(locks, r) == [x \in DOMAIN locks |-> IF locks[x] = r THEN 0 ELSE locks[x]]

ReleaseLocks(r) ==
    /\ staffLock' = released(staffLock, r)
    /\ svcLock' = released(svcLock, r)
    /\ bkLock' = released(bkLock, r)

\* the pending write of request q applied to the committed rows
applyWrite(bk, q) ==
    IF q.write = "insert"
    THEN [bk EXCEPT ![q.bid] = [staff |-> q.staff, service |-> q.service,
                                 start |-> q.startT, end |-> q.endT,
                                 status |-> "confirmed", gev |-> q.gev,
                                 notes |-> 0]]
    ELSE IF q.write = "cancel"
    THEN [bk EXCEPT ![q.bid].status = "cancelled",
                    ![q.bid].notes = bk[q.bid].notes + 1]
    ELSE IF q.write = "move"
    THEN [bk EXCEPT ![q.bid].start = q.startT, ![q.bid].end = q.endT,
                    ![q.bid].status = "confirmed",
                    ![q.bid].notes = bk[q.bid].notes + 1]
    ELSE bk

\* the booking written by request q stands: q has committed and the row is
\* confirmed with the interval q gave it
standing(q) ==
    /\ req[q].committed
    /\ req[q].write \in {"insert", "move"}
    /\ bookings[req[q].bid].status = "confirmed"
    /\ bookings[req[q].bid].staff = req[q].staff
    /\ bookings[req[q].bid].start = req[q].startT
    /\ bookings[req[q].bid].end = req[q].endT

\* requests whose committed booking of staff s stands
committedOn(s) == {q \in Req : req[q].staff = s /\ standing(q)}

\* the request answers and ends; its transaction (if any) has ended
Respond(r, q, st) == req' = [req EXCEPT ![r] = [q EXCEPT !.pc = "done", !.status = st]]

\* requests in flight (history: a beginning request notes whether it
\* overlaps another one)
inFlight == {q \in Req : req[q].pc \notin {"idle", "done"}}

\* request slots are taken in order
canBegin(r) == req[r].pc = "idle" /\ (IF r = 1 THEN TRUE ELSE req[r - 1].pc # "idle")

inFlightCreates == Cardinality({q \in Req : req[q].kind = "create" /\ req[q].pc # "done"})

----------------------------------------------------------------------------
(* POST /api/bookings *)

\* validation, then dbPool.connect() and BEGIN
CreateBegin(r) ==
    /\ canBegin(r)
    /\ nextId + inFlightCreates <= MaxBookings
    /\ \E tz \in {inp.tz : inp \in CreateInputs} :
        LET q == [req[r] EXCEPT !.kind = "create", !.tz = tz,
                                !.conc = (inFlight # {})]
        IN IF ~tzZone(tz)
           THEN Respond(r, q, 400)
           ELSE req' = [req EXCEPT ![r] = [q EXCEPT !.pc = "lockService"]]
    /\ UNCHANGED <<bookings, nextId, staffRow, staffLock, svcLock, bkLock,
                   endLocalBound, ca, customers>>

\* getServiceDetails: SELECT .. FROM services .. AND is_active = TRUE FOR UPDATE
CreateLockService(r) ==
    /\ req[r].kind = "create" /\ req[r].pc = "lockService"
    /\ \E sv \in {inp.service : inp \in {i \in CreateInputs : i.tz = req[r].tz}} :
          IF ~serviceActive(sv)
          THEN /\ Respond(r, [req[r] EXCEPT !.service = sv], 400)
               /\ UNCHANGED svcLock
          ELSE /\ rowFree(svcLock[sv], r)
               /\ svcLock' = locked(svcLock, sv, r)
               /\ req' = [req EXCEPT ![r].pc = "lockStaff", ![r].service = sv]
    /\ UNCHANGED <<bookings, nextId, staffRow, staffLock, bkLock, endLocalBound, ca, customers>>

\* getStaffDetails(.., lock = true), findOrCreateCustomer, the time
\* boundaries, checkAvailability inside the lock and the decision: ROLLBACK
\* with 409, or INSERT of the row; then the calendar step or COMMIT
CreateLockStaff(r) ==
    /\ req[r].kind = "create" /\ req[r].pc = "lockStaff"
    /\ \E inp \in {i \in CreateInputs : i.tz = req[r].tz /\ i.service = req[r].service} :
       \E custQ \in IF customerFound(customers, inp.email) THEN {"ok"} ELSE QueryOutcomes :
       LET s == inp.staff
           email == inp.email
           sd == getStaffDetails(s, staffRow, "ok")
           startT == fromLocal(0, inp.time, inp.tz)
           found == customerFound(customers, email)
           cust == IF found \/ custQ = "fail" THEN customers
                   ELSE insertCustomer(customers, email)
           body == [req[r] EXCEPT !.staff = s, !.badDate = inp.badDate,
                                  !.startT = startT,
                                  !.endT = startT + serviceDuration(inp.service)]
           withCust == [body EXCEPT !.newCust = IF found THEN NoEmail ELSE email]
       IN
       IF staffInvalid(sd)
       THEN /\ s \in StaffIds => rowFree(staffLock[s], r)
            /\ Respond(r, body, 400)
            /\ ReleaseLocks(r)
            /\ UNCHANGED <<bookings, nextId, customers>>
       ELSE IF ~found /\ custQ = "fail"
       THEN \* the customer INSERT throws
            /\ rowFree(staffLock[s], r)
            /\ Respond(r, body, 500)
            /\ ReleaseLocks(r)
            /\ UNCHANGED <<bookings, nextId, customers>>
       ELSE IF inp.badDate
       THEN /\ rowFree(staffLock[s], r)
            /\ Respond(r, withCust, 400)
            /\ ReleaseLocks(r)
            /\ customers' = cust
            /\ UNCHANGED <<bookings, nextId>>
       ELSE
       /\ rowFree(staffLock[s], r)
       /\ \E c \in CallOutcomes :
           LET o == [staffId |-> s, startT |-> body.startT, endT |-> body.endT,
                     bookingTimezone |-> BusinessTz, staffDetails |-> sd,
                     bookingIdToExclude |-> NoExclude]
               e == [envTz |-> BusinessTz, endLocalBound |-> endLocalBound,
                     staffQ |-> "ok", whQ |-> c.whQ, dbQ |-> c.dbQ, gcal |-> c.gcal]
               res == checkAvailability(o, e, bookings, staffRow)
               q == [withCust EXCEPT !.res = res, !.saw = committedOn(s)]
           IN
           IF res.grant
           THEN \* the token-clearing UPDATE waits for the staff row
                /\ req' = [req EXCEPT ![r] = [q EXCEPT !.pc = "clearTok"]]
                /\ staffLock' = locked(staffLock, s, r)
                /\ customers' = cust
                /\ UNCHANGED <<svcLock, bkLock, bookings, nextId>>
           ELSE IF ~res.isAvailable
           THEN /\ Respond(r, q, 409)
                /\ ReleaseLocks(r)
                /\ customers' = cust
                /\ UNCHANGED <<bookings, nextId>>
           ELSE IF res.aborted
           THEN \* a failed query has aborted the transaction: INSERT throws
                /\ Respond(r, q, 500)
                /\ ReleaseLocks(r)
                /\ customers' = cust
                /\ UNCHANGED <<bookings, nextId>>
           ELSE
           LET w == [q EXCEPT !.write = "insert", !.bid = nextId]
           IN /\ nextId' = nextId + 1
              /\ IF sd.is_google_connected /\ sd.google_calendar_id
                 THEN /\ req' = [req EXCEPT ![r] = [w EXCEPT !.pc = "mirror"]]
                      /\ staffLock' = locked(staffLock, s, r)
                      /\ customers' = cust
                      /\ UNCHANGED <<svcLock, bkLock, bookings>>
                 ELSE /\ bookings' = applyWrite(bookings, w)
                      /\ customers' = applyCustomer(cust, w)
                      /\ Respond(r, [w EXCEPT !.committed = TRUE, !.mirror = "skipped"], 201)
                      /\ ReleaseLocks(r)
    /\ UNCHANGED <<staffRow, endLocalBound, ca>>

\* outcomes of the calendar step of a write
MirrorOutcomes == {"noclient", "invalid_grant", "ok", "notfound", "fail"}

mirrorDone_fatal(q, ok) ==
    [q EXCEPT !.mirror = IF ok THEN "ok" ELSE "failed",
              !.gev = IF q.kind = "create" THEN ok ELSE q.gev,
              !.warn = FALSE,
              !.committed = ok]

\* the request after its calendar step: the step's failure is caught and
\* logged (cancel and reschedule add a warning to the message), and COMMIT
\* follows in either case
mirrorDone(q, ok) ==
    [q EXCEPT !.mirror = IF ok THEN "ok" ELSE "failed",
              !.gev = IF q.kind = "create" THEN ok ELSE q.gev,
              !.warn = (~ok /\ q.kind # "create"),
              !.committed = TRUE]

\* COMMIT and the answer, or ROLLBACK and the error answer
Finish(r, w, okStatus) ==
    /\ bookings' = IF w.committed THEN applyWrite(bookings, w) ELSE bookings
    /\ customers' = IF w.committed THEN applyCustomer(customers, w) ELSE customers
    /\ Respond(r, w, IF w.committed THEN okStatus ELSE 500)
    /\ ReleaseLocks(r)

\* getGoogleCalendarClient and calendar.events.insert, the UPDATE of
\* google_event_id, then COMMIT and the 201 answer
CreateMirror(r) ==
    /\ req[r].kind = "create" /\ req[r].pc = "mirror"
    /\ \E m \in MirrorOutcomes \ {"notfound"} :
        LET c == googleClientOutcome(staffRow[req[r].staff].token,
                                     [kind |-> m, busy |-> {}])
        IN
        IF c = "invalid_grant"
        THEN /\ req' = [req EXCEPT ![r].pc = "clearTok"]
             /\ UNCHANGED <<bookings, customers, staffLock, svcLock, bkLock>>
        ELSE
        Finish(r, mirrorDone(req[r], c = "client" /\ m = "ok"), 201)
    /\ UNCHANGED <<nextId, staffRow, endLocalBound, ca>>

----------------------------------------------------------------------------
(* PUT /api/admin/bookings/[id]/cancel *)

\* dbPool.connect() and BEGIN
CancelBegin(r) ==
    /\ canBegin(r)
    /\ req' = [req EXCEPT ![r] = [req[r] EXCEPT !.kind = "cancel",
                                                !.pc = "lockBooking"]]
    /\ UNCHANGED <<bookings, nextId, staffRow, staffLock, svcLock, bkLock,
                   endLocalBound, ca, customers>>

\* SELECT .. FROM bookings .. FOR UPDATE, the terminal-status check and the
\* UPDATE to 'cancelled'; without a mirrored event COMMIT follows at once
CancelLockBooking(r) ==
    /\ req[r].kind = "cancel" /\ req[r].pc = "lockBooking"
    /\ \E b \in BookingIds :
       LET row == bookings[b]
           q == [req[r] EXCEPT !.bid = b]
       IN
       IF row.status = "absent"
       THEN /\ Respond(r, q, 404)
            /\ UNCHANGED <<bookings, bkLock>>
       ELSE
       /\ rowFree(bkLock[b], r)
       /\ IF row.status \in TerminalStatuses
          THEN /\ Respond(r, [q EXCEPT !.staff = row.staff], 409)
               /\ UNCHANGED <<bookings, bkLock>>
          ELSE
          LET w == [q EXCEPT !.staff = row.staff, !.write = "cancel",
                                  !.startT = row.start, !.endT = row.end]
          IN IF row.gev
             THEN /\ req' = [req EXCEPT ![r] = [w EXCEPT !.pc = "mirror"]]
                  /\ bkLock' = locked(bkLock, b, r)
                  /\ UNCHANGED bookings
             ELSE /\ bookings' = applyWrite(bookings, w)
                  /\ Respond(r, [w EXCEPT !.committed = TRUE, !.mirror = "skipped"], 200)
                  /\ UNCHANGED bkLock
    /\ UNCHANGED <<nextId, staffRow, staffLock, svcLock, endLocalBound, ca, customers>>

\* getGoogleCalendarClient and calendar.events.delete (404 counts as
\* deleted), then COMMIT and the answer with its warning
CancelMirror(r) ==
    /\ req[r].kind = "cancel" /\ req[r].pc = "mirror"
    /\ \E m \in MirrorOutcomes :
        LET c == googleClientOutcome(staffRow[req[r].staff].token,
                                     [kind |-> m, busy |-> {}])
        IN
        IF c = "invalid_grant"
        THEN /\ req' = [req EXCEPT ![r].pc = "clearTok"]
             /\ UNCHANGED <<bookings, customers, staffLock, svcLock, bkLock>>
        ELSE
        Finish(r, mirrorDone(req[r], c = "client" /\ m \in {"ok", "notfound"}), 200)
    /\ UNCHANGED <<nextId, staffRow, endLocalBound, ca>>

----------------------------------------------------------------------------
(* googleClient.ts: the invalid_grant branch of getGoogleCalendarClient *)

\* dbPool.query('UPDATE staff SET google_refresh_token = NULL,
\* google_calendar_id = NULL ..') runs on a pool connection of its own and
\* waits for the staff row's lock, whoever holds it; the caller then goes
\* on without a client.  A caller that holds the lock itself never gets here.
ClearToken(r) ==
    /\ req[r].pc = "clearTok"
    /\ staffLock[req[r].staff] = 0
    /\ staffRow' = [staffRow EXCEPT ![req[r].staff].token = FALSE,
                                    ![req[r].staff].calId = FALSE]
    /\ req[r].kind = "cancel"
    /\ Finish(r, mirrorDone(req[r], FALSE), 200)
    /\ UNCHANGED <<nextId, endLocalBound, ca>>

----------------------------------------------------------------------------
(* PUT /api/admin/bookings/[id]/reschedule *)

\* confirmed rows of staff s overlapping [a, b)
overlapping(bk, s, a, b) ==
    {x \in DOMAIN bk : /\ bk[x].staff = s
                       /\ bk[x].status = "confirmed"
                       /\ rangesOverlap(a, b, bk[x].start, bk[x].end)}

RescheduleInputs ==
    {[bid |-> b, time |-> t, formatOk |-> TRUE] : b \in BookingIds, t \in LocalTimes}
    \cup {[bid |-> 1, time |-> 360, formatOk |-> FALSE]}

\* validation of newDate / newTime, then dbPool.connect() and BEGIN
RescheduleBegin(r) ==
    /\ canBegin(r)
    /\ \E formatOk \in {inp.formatOk : inp \in RescheduleInputs} :
        LET q == [req[r] EXCEPT !.kind = "reschedule", !.conc = (inFlight # {})]
        IN IF ~formatOk
           THEN Respond(r, q, 400)
           ELSE req' = [req EXCEPT ![r] = [q EXCEPT !.pc = "lockBooking"]]
    /\ UNCHANGED <<bookings, nextId, staffRow, staffLock, svcLock, bkLock,
                   endLocalBound, ca, customers>>

\* SELECT b.*, .. FROM bookings b JOIN services s .. JOIN staff st ..
\* FOR UPDATE locks the joined rows in the order b, s, st: the bookings row
RescheduleLockBooking(r) ==
    /\ req[r].kind = "reschedule" /\ req[r].pc = "lockBooking"
    /\ \E b \in {inp.bid : inp \in {i \in RescheduleInputs : i.formatOk}} :
          IF bookings[b].status = "absent"
          THEN /\ Respond(r, [req[r] EXCEPT !.bid = b], 400)
               /\ UNCHANGED bkLock
          ELSE /\ rowFree(bkLock[b], r)
               /\ bkLock' = locked(bkLock, b, r)
               /\ req' = [req EXCEPT ![r].pc = "lockService",
                                     ![r].bid = b,
                                     ![r].staff = bookings[b].staff,
                                     ![r].service = bookings[b].service]
    /\ UNCHANGED <<bookings, nextId, staffRow, staffLock, svcLock, endLocalBound, ca, customers>>

\* .. the services row
RescheduleLockService(r) ==
    /\ req[r].kind = "reschedule" /\ req[r].pc = "lockService"
    /\ rowFree(svcLock[req[r].service], r)
    /\ svcLock' = locked(svcLock, req[r].service, r)
    /\ req' = [req EXCEPT ![r].pc = "lockStaff"]
    /\ UNCHANGED <<bookings, nextId, staffRow, staffLock, bkLock, endLocalBound, ca, customers>>

\* .. the staff row; then the status check, the new interval,
\* checkAvailability with the booking's own id excluded and the UPDATE of
\* the interval; then the calendar step or COMMIT
RescheduleLockStaff(r) ==
    /\ req[r].kind = "reschedule" /\ req[r].pc = "lockStaff"
    /\ LET s == req[r].staff
           b == req[r].bid
           row == bookings[b]
       IN
       /\ rowFree(staffLock[s], r)
       /\ \E c \in CallOutcomes, inPast \in BOOLEAN,
             inp \in {i \in RescheduleInputs : i.formatOk /\ i.bid = b} :
           LET sd == [found |-> TRUE, is_active |-> TRUE,
                      is_google_connected |-> staffRow[s].token,
                      google_calendar_id |-> staffRow[s].calId]
               newStart == fromLocal(0, inp.time, BusinessTz)
               newEnd == newStart + serviceDuration(row.service)
               o == [staffId |-> s, startT |-> newStart, endT |-> newEnd,
                     bookingTimezone |-> BusinessTz, staffDetails |-> sd,
                     bookingIdToExclude |-> b]
               e == [envTz |-> BusinessTz, endLocalBound |-> endLocalBound,
                     staffQ |-> "ok", whQ |-> c.whQ, dbQ |-> c.dbQ, gcal |-> c.gcal]
               res == checkAvailability(o, e, bookings, staffRow)
               q == [req[r] EXCEPT !.res = res,
                                   !.startT = newStart, !.endT = newEnd,
                                   !.saw = committedOn(s),
                                   !.selfOnly = (overlapping(bookings, s,
                                                   newStart, newEnd) = {b})]
           IN
           IF row.status \in TerminalStatuses \/ inPast
           THEN /\ Respond(r, req[r], 409)
                /\ ReleaseLocks(r)
                /\ UNCHANGED bookings
           ELSE IF res.grant
           THEN /\ req' = [req EXCEPT ![r] = [q EXCEPT !.pc = "clearTok"]]
                /\ staffLock' = locked(staffLock, s, r)
                /\ UNCHANGED <<svcLock, bkLock, bookings>>
           ELSE IF ~res.isAvailable
           THEN /\ Respond(r, q, 409)
                /\ ReleaseLocks(r)
                /\ UNCHANGED bookings
           ELSE IF res.aborted
           THEN /\ Respond(r, q, 500)
                /\ ReleaseLocks(r)
                /\ UNCHANGED bookings
           ELSE
           LET w == [q EXCEPT !.write = "move"]
           IN IF row.gev /\ sd.is_google_connected
              THEN /\ req' = [req EXCEPT ![r] = [w EXCEPT !.pc = "mirror"]]
                   /\ staffLock' = locked(staffLock, s, r)
                   /\ UNCHANGED <<svcLock, bkLock, bookings>>
              ELSE /\ bookings' = applyWrite(bookings, w)
                   /\ Respond(r, [w EXCEPT !.committed = TRUE, !.mirror = "skipped",
                                           !.warn = row.gev], 200)
                   /\ ReleaseLocks(r)
    /\ UNCHANGED <<nextId, staffRow, endLocalBound, ca, customers>>

\* getGoogleCalendarClient and calendar.events.patch (404 counts as
\* updated), then COMMIT and the answer with its warning
RescheduleMirror(r) ==
    /\ req[r].kind = "reschedule" /\ req[r].pc = "mirror"
    /\ \E m \in MirrorOutcomes :
        LET c == googleClientOutcome(staffRow[req[r].staff].token,
                                     [kind |-> m, busy |-> {}])
        IN
        IF c = "invalid_grant"
        THEN /\ req' = [req EXCEPT ![r].pc = "clearTok"]
             /\ UNCHANGED <<bookings, customers, staffLock, svcLock, bkLock>>
        ELSE
        Finish(r, mirrorDone(req[r], c = "client" /\ m \in {"ok", "notfound"}), 200)
    /\ UNCHANGED <<nextId, staffRow, endLocalBound, ca>>

----------------------------------------------------------------------------
(* The engine under concurrent requests *)

SeedRow == [staff |-> 1, service |-> 1, start |-> fromLocal(0, 360, BusinessTz),
            end |-> fromLocal(0, 720, BusinessTz), status |-> "confirmed",
            gev |-> TRUE, notes |-> 0]

NoCall == [o |-> [staffId |-> 0, startT |-> 0, endT |-> 0,
                  bookingTimezone |-> BusinessTz, staffDetails |-> NoDetails,
                  bookingIdToExclude |-> NoExclude],
           e |-> [envTz |-> BusinessTz, endLocalBound |-> FALSE, staffQ |-> "ok",
                  whQ |-> "ok", dbQ |-> "ok",
                  gcal |-> [kind |-> "ok", busy |-> {}]],
           tokenBefore |-> FALSE, bk |-> <<>>, called |-> FALSE, res |-> NoResult]

Init ==
    /\ bookings = [b \in BookingIds |-> IF b = 1 THEN SeedRow ELSE NoRow]
    /\ nextId = 2
    /\ staffRow = [s \in StaffIds |->
                     [is_active |-> TRUE, token |-> (s = 1), calId |-> (s = 1)]]
    /\ staffLock = [s \in StaffIds |-> 0]
    /\ svcLock = [sv \in ServiceIds |-> 0]
    /\ bkLock = [b \in BookingIds |-> 0]
    /\ endLocalBound \in BOOLEAN
    /\ req = [r \in Req |-> IdleReq]
    /\ ca = NoCall
    /\ customers = {"ANN@x", "bob@x"}

Next ==
    \E r \in Req :
        \/ CreateBegin(r)
        \/ CreateLockService(r)
        \/ CreateLockStaff(r)
        \/ CreateMirror(r)
        \/ CancelBegin(r)
        \/ CancelLockBooking(r)
        \/ CancelMirror(r)
        \/ ClearToken(r)
        \/ RescheduleBegin(r)
        \/ RescheduleLockBooking(r)
        \/ RescheduleLockService(r)
        \/ RescheduleLockStaff(r)
        \/ RescheduleMirror(r)

Spec == Init /\ [][Next]_vars

----------------------------------------------------------------------------
(* The admin routes (cancel, reschedule) over a booking in any status *)

InitAdmin ==
    /\ bookings \in {[b \in BookingIds |->
                        IF b = 1 THEN [SeedRow EXCEPT !.status = st] ELSE NoRow] :
                     st \in Statuses}
    /\ nextId = 2
    /\ staffRow = [s \in StaffIds |->
                     [is_active |-> TRUE, token |-> (s = 1), calId |-> (s = 1)]]
    /\ staffLock = [s \in StaffIds |-> 0]
    /\ svcLock = [sv \in ServiceIds |-> 0]
    /\ bkLock = [b \in BookingIds |-> 0]
    /\ endLocalBound \in BOOLEAN
    /\ req = [r \in Req |-> IdleReq]
    /\ ca = NoCall
    /\ customers = {"ANN@x", "bob@x"}

NextAdmin ==
    \E r \in Req :
        \/ CancelBegin(r)
        \/ CancelLockBooking(r)
        \/ CancelMirror(r)
        \/ ClearToken(r)
        \/ RescheduleBegin(r)
        \/ RescheduleLockBooking(r)
        \/ RescheduleLockService(r)
        \/ RescheduleLockStaff(r)
        \/ RescheduleMirror(r)

SpecAdmin == InitAdmin /\ [][NextAdmin]_vars

----------------------------------------------------------------------------
(* PUT /api/admin/bookings/[id]: status and notes *)

allowedStatuses == {"scheduled", "confirmed", "completed", "no-show"}

NoStatus == "undefined"

\* bodies of the request: a status (allowed, 'cancelled', or none) and notes
\* or not
StatusInputs ==
    {[bid |-> b, status |-> st, hasNotes |-> n] :
        b \in BookingIds, st \in allowedStatuses \cup {"cancelled", NoStatus},
        n \in BOOLEAN}

\* validation of the body, then one UPDATE bookings SET status, notes ..
\* WHERE booking_id through the pool: no transaction, no row read, no
\* availability check; the UPDATE waits while another transaction holds
\* the row's lock
StatusUpdate(r) ==
    /\ canBegin(r)
    /\ \E inp \in StatusInputs :
        LET q == [req[r] EXCEPT !.kind = "status", !.bid = inp.bid]
            row == bookings[inp.bid]
        IN IF inp.status \notin allowedStatuses \cup {NoStatus}
           THEN Respond(r, q, 400) /\ UNCHANGED bookings
           ELSE IF inp.status = NoStatus /\ ~inp.hasNotes
           THEN Respond(r, q, 400) /\ UNCHANGED bookings
           ELSE IF row.status = "absent"
           THEN Respond(r, q, 404) /\ UNCHANGED bookings
           ELSE /\ bkLock[inp.bid] = 0
                /\ bookings' = [bookings EXCEPT ![inp.bid] =
                      [row EXCEPT !.status = IF inp.status = NoStatus THEN row.status
                                            ELSE inp.status,
                                  !.notes = IF inp.hasNotes THEN 1 ELSE row.notes]]
                /\ Respond(r, q, 200)
    /\ UNCHANGED <<nextId, staffRow, staffLock, svcLock, bkLock, endLocalBound, ca,
                   customers>>

NextStatus ==
    \E r \in Req :
        \/ CreateBegin(r)
        \/ CreateLockService(r)
        \/ CreateLockStaff(r)
        \/ CreateMirror(r)
        \/ CancelBegin(r)
        \/ CancelLockBooking(r)
        \/ CancelMirror(r)
        \/ ClearToken(r)
        \/ StatusUpdate(r)

\* the seeded booking stands or was cancelled
InitStatus ==
    /\ bookings \in {[b \in BookingIds |->
                        IF b = 1 THEN [SeedRow EXCEPT !.status = st] ELSE NoRow] :
                     st \in {"confirmed", "cancelled"}}
    /\ nextId = 2
    /\ staffRow = [s \in StaffIds |->
                     [is_active |-> TRUE, token |-> (s = 1), calId |-> (s = 1)]]
    /\ staffLock = [s \in StaffIds |-> 0]
    /\ svcLock = [sv \in ServiceIds |-> 0]
    /\ bkLock = [b \in BookingIds |-> 0]
    /\ endLocalBound \in BOOLEAN
    /\ req = [r \in Req |-> IdleReq]
    /\ ca = NoCall
    /\ customers = {"ANN@x", "bob@x"}

SpecStatus == InitStatus /\ [][NextStatus]_vars

----------------------------------------------------------------------------
(* POST /api/bookings for customers the store may not hold yet *)

InitCreate ==
    /\ bookings = [b \in BookingIds |-> IF b = 1 THEN SeedRow ELSE NoRow]
    /\ nextId = 2
    /\ staffRow = [s \in StaffIds |->
                     [is_active |-> TRUE, token |-> (s = 1), calId |-> (s = 1)]]
    /\ staffLock = [s \in StaffIds |-> 0]
    /\ svcLock = [sv \in ServiceIds |-> 0]
    /\ bkLock = [b \in BookingIds |-> 0]
    /\ endLocalBound \in BOOLEAN
    /\ req = [r \in Req |-> IdleReq]
    /\ ca = NoCall
    /\ customers = {"ANN@x"}

NextCreate ==
    \E r \in Req :
        \/ CreateBegin(r)
        \/ CreateLockService(r)
        \/ CreateLockStaff(r)
        \/ CreateMirror(r)

SpecCreate == InitCreate /\ [][NextCreate]_vars

----------------------------------------------------------------------------
(* The create and cancel routes with their steps scheduled fairly: a
   request arrives or not, but once begun each of its steps is taken when
   it stays possible (a query on a connection is answered, a lock that is
   free is granted, a pending UPDATE of the pool goes through when the row
   is unlocked) *)

NextLive ==
    \E r \in Req :
        \/ CreateBegin(r)
        \/ CreateLockService(r)
        \/ CreateLockStaff(r)
        \/ CreateMirror(r)
        \/ CancelBegin(r)
        \/ CancelLockBooking(r)
        \/ CancelMirror(r)
        \/ ClearToken(r)

FairLive ==
    \A r \in Req :
        /\ WF_vars(CreateLockService(r))
        /\ WF_vars(CreateLockStaff(r))
        /\ WF_vars(CreateMirror(r))
        /\ WF_vars(CancelLockBooking(r))
        /\ WF_vars(CancelMirror(r))
        /\ WF_vars(ClearToken(r))

SpecLive == Init /\ [][NextLive]_vars /\ FairLive

----------------------------------------------------------------------------
(* checkAvailability called on its own, over any store and any outcome *)

CallStarts == {-360, 0, 360, 720, 1080}

SeedRows ==
    {[staff |-> s, service |-> 1, start |-> t, end |-> t + serviceDuration(1),
      status |-> st, gev |-> FALSE, notes |-> 0] :
        s \in StaffIds, t \in {0, 360}, st \in {"confirmed", "cancelled"}}

InitCA ==
    /\ bookings \in {[b \in BookingIds |-> IF b = 1 THEN row ELSE NoRow] : row \in SeedRows}
    /\ nextId = 2
    /\ staffRow \in {[s \in StaffIds |->
                        IF s = 1 THEN [is_active |-> a, token |-> t, calId |-> t]
                        ELSE [is_active |-> TRUE, token |-> FALSE, calId |-> FALSE]] :
                     a \in BOOLEAN, t \in BOOLEAN}
    /\ staffLock = [s \in StaffIds |-> 0]
    /\ svcLock = [sv \in ServiceIds |-> 0]
    /\ bkLock = [b \in BookingIds |-> 0]
    /\ endLocalBound \in BOOLEAN
    /\ req = [r \in Req |-> IdleReq]
    /\ ca = NoCall
    /\ customers = {"ANN@x", "bob@x"}

\* one call with the transaction client of no open transaction: the
\* token-clearing UPDATE of an invalid grant goes through at once
CallCheck ==
    /\ ~ca.called
    /\ \E staffId \in StaffIds \cup {MissingStaff}, startT \in CallStarts,
          sv \in ServiceIds, given \in {"none", "row", "active"},
          excl \in {NoExclude, 1}, envTz \in {BusinessTz, BadTz},
          bookingTimezone \in {BusinessTz, BadTz},
          staffQ \in QueryOutcomes, c \in CallOutcomes :
        LET row == getStaffDetails(staffId, staffRow, "ok")
            sd == IF given = "none" THEN NoDetails
                  ELSE IF given = "row" THEN row
                  ELSE [row EXCEPT !.found = TRUE, !.is_active = TRUE]
            o == [staffId |-> staffId, startT |-> startT,
                  endT |-> startT + serviceDuration(sv),
                  bookingTimezone |-> bookingTimezone, staffDetails |-> sd,
                  bookingIdToExclude |-> excl]
            e == [envTz |-> envTz, endLocalBound |-> endLocalBound,
                  staffQ |-> staffQ, whQ |-> c.whQ, dbQ |-> c.dbQ, gcal |-> c.gcal]
            res == checkAvailability(o, e, bookings, staffRow)
        IN /\ ca' = [o |-> o, e |-> e,
                     tokenBefore |-> (staffId \in StaffIds /\ staffRow[staffId].token),
                     bk |-> <<>>, called |-> TRUE, res |-> res]
           /\ staffRow' = IF res.grant
                          THEN [staffRow EXCEPT ![staffId].token = FALSE,
                                                ![staffId].calId = FALSE]
                          ELSE staffRow
    /\ UNCHANGED <<bookings, nextId, staffLock, svcLock, bkLock, endLocalBound, req,
                   customers>>

NextCA == CallCheck

SpecCA == InitCA /\ [][NextCA]_vars

----------------------------------------------------------------------------
(* timeUtils.ts: formatTime, and the string operations of timeToMinutes *)

\* the store at rest, for calls of functions that do not touch it
storeVars == <<bookings, nextId, staffRow, staffLock, svcLock, bkLock,
               endLocalBound, req, customers>>

StoreAtRest ==
    /\ bookings = [b \in BookingIds |-> IF b = 1 THEN SeedRow ELSE NoRow]
    /\ nextId = 2
    /\ staffRow = [s \in StaffIds |->
                     [is_active |-> TRUE, token |-> (s = 1), calId |-> (s = 1)]]
    /\ staffLock = [s \in StaffIds |-> 0]
    /\ svcLock = [sv \in ServiceIds |-> 0]
    /\ bkLock = [b \in BookingIds |-> 0]
    /\ endLocalBound = TRUE
    /\ req = [r \in Req |-> IdleReq]
    /\ customers = {"ANN@x", "bob@x"}

\* a string is the sequence of its characters
DigitChars == <<"0", "1", "2", "3", "4", "5", "6", "7", "8", "9">>

\* String(n) of a non-negative integer: its decimal digits
RECURSIVE String(_)
String(n) ==
    IF n < 10 THEN <<DigitChars[n + 1]>>
    ELSE String(n \div 10) \o <<DigitChars[(n % 10) + 1]>>

\* str.padStart(targetLength, padString) with a one-character padString
RECURSIVE padStart(_, _, _)
padStart(str, targetLength, padString) ==
    IF Len(str) >= targetLength THEN str
    ELSE padStart(<<padString>> \o str, targetLength, padString)

formatTime_noWrap(totalMinutes) ==
    LET t == IF totalMinutes < 0 THEN 0 ELSE totalMinutes
        hours == t \div 60
        mins == t % 60
    IN padStart(String(hours), 2, "0") \o <<":">> \o padStart(String(mins), 2, "0")

formatTime_twelveHour(totalMinutes) ==
    LET t0 == IF totalMinutes < 0 THEN 0 ELSE totalMinutes
        t == t0 % (24 * 60)
        hours == (t \div 60) % 12
        mins == t % 60
    IN padStart(String(hours), 2, "0") \o <<":">> \o padStart(String(mins), 2, "0")

\* formatTime of an integer: a negative input counts as 0, the minutes wrap
\* at 24 * 60, hours and minutes are padded to two digits
formatTime(totalMinutes) ==
    LET t0 == IF totalMinutes < 0 THEN 0 ELSE totalMinutes
        t == t0 % (24 * 60)
        hours == t \div 60
        mins == t % 60
    IN padStart(String(hours), 2, "0") \o <<":">> \o padStart(String(mins), 2, "0")

\* str.split(':')
RECURSIVE split(_)
split(str) ==
    IF \A i \in 1..Len(str) : str[i] # ":" THEN <<str>>
    ELSE LET k == CHOOSE i \in 1..Len(str) :
                    str[i] = ":" /\ \A j \in 1..(i - 1) : str[j] # ":"
         IN <<SubSeq(str, 1, k - 1)>> \o split(SubSeq(str, k + 1, Len(str)))

digitValue(ch) == CHOOSE d \in 0..9 : DigitChars[d + 1] = ch

isDigit(ch) == \E d \in 0..9 : DigitChars[d + 1] = ch

\* the value of the leading digits of a string
RECURSIVE parseDigits(_, _)
parseDigits(str, acc) ==
    IF Len(str) = 0 \/ ~isDigit(Head(str)) THEN acc
    ELSE parseDigits(Tail(str), acc * 10 + digitValue(Head(str)))

\* leading blanks are skipped
RECURSIVE trimStart(_)
trimStart(str) ==
    IF Len(str) > 0 /\ Head(str) = " " THEN trimStart(Tail(str)) ELSE str

\* parseInt(str, 10): blanks are skipped, a sign is taken, then the value
\* of the leading digits; NaN when no digit follows; what comes after the
\* digits is ignored
parseInt(str) ==
    LET t == trimStart(str)
        signed == Len(t) > 0 /\ Head(t) \in {"-", "+"}
        digits == IF signed THEN Tail(t) ELSE t
    IN IF Len(digits) = 0 \/ ~isDigit(Head(digits)) THEN [num |-> FALSE, val |-> 0]
       ELSE IF signed /\ Head(t) = "-" THEN TimePart(0 - parseDigits(digits, 0))
       ELSE TimePart(parseDigits(digits, 0))

\* what timeToMinutes makes of a string: its parts and their parseInt
timeStrOf(str) ==
    LET parts == split(str)
    IN [isStr |-> TRUE, parts |-> [i \in 1..Len(parts) |-> parseInt(parts[i])]]

\* arguments of formatTime: every minute of the day and some outside it
MinutesOfDay == 0 .. (DayMinutes - 1)
FormatInputs == MinutesOfDay \cup {-1, DayMinutes, DayMinutes + 61}

InitTime ==
    /\ StoreAtRest
    /\ ca \in {[fn |-> "formatTime", m |-> m, called |-> FALSE, str |-> <<>>, back |-> -1] :
                 m \in FormatInputs}

\* timeToMinutes(formatTime(m))
FormatCall ==
    /\ ~ca.called
    /\ LET str == formatTime(ca.m)
       IN ca' = [ca EXCEPT !.called = TRUE, !.str = str,
                           !.back = timeToMinutes(timeStrOf(str))]
    /\ UNCHANGED storeVars

NextTime == FormatCall

SpecTime == InitTime /\ [][NextTime]_vars

\* a JavaScript value handed to timeToMinutes: a string, null, undefined or
\* a number
Text(str) == [type |-> "string", text |-> str]
NotTexts == {[type |-> t, text |-> <<>>] : t \in {"object", "undefined", "number"}}

\* the first statement of timeToMinutes: a falsy argument (the empty string
\* too) and one whose typeof is not 'string' are no time string
timeStrArg(timeStr) ==
    IF timeStr.type # "string" \/ Len(timeStr.text) = 0
    THEN [isStr |-> FALSE, parts |-> <<>>]
    ELSE timeStrOf(timeStr.text)

\* arguments: texts of one, two or three parts joined by colons, the parts
\* being digits in and out of range, letters, digits followed or preceded by
\* a letter, a signed and a blank-led number, or nothing
PartTexts ==
    {<<>>, <<"0">>, <<"0", "0">>, <<"7">>, <<"0", "9">>, <<"2", "3">>, <<"2", "4">>,
     <<"5", "9">>, <<"6", "0">>, <<"a", "b">>, <<"3", "x">>, <<"x", "3">>,
     <<"-", "1">>, <<" ", "7">>}
ParseArgs ==
    NotTexts
    \cup {Text(p) : p \in PartTexts}
    \cup {Text(p \o <<":">> \o q) : p \in PartTexts, q \in PartTexts}
    \cup {Text(p \o <<":">> \o q \o <<":">> \o r) :
            p \in {<<"0", "9">>, <<"2", "3">>, <<"2", "4">>},
            q \in {<<"0", "0">>, <<"5", "9">>, <<"6", "0">>, <<"3", "x">>},
            r \in {<<"0", "0">>, <<"9", "9">>, <<"a", "b">>}}

InitParse ==
    /\ StoreAtRest
    /\ ca \in {[fn |-> "timeToMinutes", arg |-> a, called |-> FALSE, result |-> 0] :
                 a \in ParseArgs}

\* timeToMinutes(arg)
ParseCall ==
    /\ ~ca.called
    /\ ca' = [ca EXCEPT !.called = TRUE, !.result = timeToMinutes(timeStrArg(ca.arg))]
    /\ UNCHANGED storeVars

NextParse == ParseCall

SpecParse == InitParse /\ [][NextParse]_vars

\* a JavaScript value handed to formatTime: an integer number, NaN, null,
\* undefined or a string
Num(v) == [type |-> "number", nan |-> FALSE, val |-> v]
NaN == [type |-> "number", nan |-> TRUE, val |-> 0]
NotNumbers == {[type |-> t, nan |-> FALSE, val |-> 0] : t \in {"object", "undefined", "string"}}

\* the first statement of formatTime: anything whose typeof is not
\* 'number', NaN and a negative number count as 0
formatTimeOf(totalMinutes) ==
    IF totalMinutes.type # "number" \/ totalMinutes.nan \/ totalMinutes.val < 0
    THEN formatTime(0)
    ELSE formatTime(totalMinutes.val)

\* arguments: the integers from below 0 to past two days, and the values
\* that are not numbers
FormatArgs == {Num(m) : m \in -2 .. (2 * DayMinutes + 1)} \cup {NaN} \cup NotNumbers

InitFormat ==
    /\ StoreAtRest
    /\ ca \in {[fn |-> "formatTime", arg |-> a, called |-> FALSE, str |-> <<>>] :
                 a \in FormatArgs}

\* formatTime(arg)
FormatArgCall ==
    /\ ~ca.called
    /\ ca' = [ca EXCEPT !.called = TRUE, !.str = formatTimeOf(ca.arg)]
    /\ UNCHANGED storeVars

NextFormat == FormatArgCall

SpecFormat == InitFormat /\ [][NextFormat]_vars

----------------------------------------------------------------------------
(* availabilityService.ts: calculateFreeIntervals and generateSlots *)

\* largest minute of the ranges drawn for a call
MaxPoint == 4

Range(a, b) == [start |-> a, end |-> b]

\* busyBlocks.sort((a, b) => a.start - b.start): a stable sort by start
RECURSIVE insertByStart(_, _)
insertByStart(sorted, x) ==
    IF Len(sorted) = 0 THEN <<x>>
    ELSE IF sorted[Len(sorted)].start <= x.start THEN Append(sorted, x)
    ELSE Append(insertByStart(SubSeq(sorted, 1, Len(sorted) - 1), x),
                sorted[Len(sorted)])

RECURSIVE sortByStart(_)
sortByStart(list) ==
    IF Len(list) = 0 THEN <<>>
    ELSE insertByStart(sortByStart(SubSeq(list, 1, Len(list) - 1)), list[Len(list)])

Max(a, b) == IF a > b THEN a ELSE b
Min(a, b) == IF a < b THEN a ELSE b

splitFree_leftOnly(free, busy) ==
    IF free.end <= free.start THEN <<>>
    ELSE LET overlapStart == Max(free.start, busy.start)
             overlapEnd == Min(free.end, busy.end)
         IN IF overlapStart < overlapEnd
            THEN IF free.start < busy.start
                 THEN <<Range(free.start, busy.start)>> ELSE <<>>
            ELSE <<free>>

\* body of the inner loop: what one free interval leaves after one busy block
splitFree(free, busy) ==
    IF free.end <= free.start THEN <<>>
    ELSE LET overlapStart == Max(free.start, busy.start)
             overlapEnd == Min(free.end, busy.end)
         IN IF overlapStart < overlapEnd
            THEN (IF free.start < busy.start
                  THEN <<Range(free.start, busy.start)>> ELSE <<>>)
                 \o (IF free.end > busy.end
                     THEN <<Range(busy.end, free.end)>> ELSE <<>>)
            ELSE <<free>>

\* the inner loop: nextFreeIntervals for one busy block
RECURSIVE subtractBusy(_, _)
subtractBusy(freeIntervals, busy) ==
    IF Len(freeIntervals) = 0 THEN <<>>
    ELSE splitFree(Head(freeIntervals), busy) \o subtractBusy(Tail(freeIntervals), busy)

\* the outer loop over the sorted busy blocks; a block with end <= start
\* is passed over
RECURSIVE subtractAll(_, _)
subtractAll(freeIntervals, busyBlocks) ==
    IF Len(busyBlocks) = 0 THEN freeIntervals
    ELSE LET busy == Head(busyBlocks)
         IN IF busy.end <= busy.start
            THEN subtractAll(freeIntervals, Tail(busyBlocks))
            ELSE subtractAll(subtractBusy(freeIntervals, busy), Tail(busyBlocks))

calculateFreeIntervals(workingIntervals, busyBlocks) ==
    subtractAll(workingIntervals, sortByStart(busyBlocks))

\* the while loop: starts from currentSlotStart in steps while the start is
\* at most lastStart
RECURSIVE whileSlots(_, _, _)
whileSlots(currentSlotStart, lastStart, step) ==
    IF currentSlotStart <= lastStart
    THEN <<currentSlotStart>> \o whileSlots(currentSlotStart + step, lastStart, step)
    ELSE <<>>

slotsOfInterval_skipExact(interval, serviceDurationMinutes, slotStepMinutes) ==
    IF \/ interval.end <= interval.start
       \/ (interval.end - interval.start) <= serviceDurationMinutes
    THEN <<>>
    ELSE whileSlots(interval.start, interval.end - serviceDurationMinutes,
                    Max(slotStepMinutes, 1))

slotsOfInterval_startInside(interval, serviceDurationMinutes, slotStepMinutes) ==
    IF interval.end <= interval.start THEN <<>>
    ELSE whileSlots(interval.start, interval.end - 1, Max(slotStepMinutes, 1))

\* body of the loop of generateSlots for one free interval
slotsOfInterval(interval, serviceDurationMinutes, slotStepMinutes) ==
    IF \/ interval.end <= interval.start
       \/ (interval.end - interval.start) < serviceDurationMinutes
    THEN <<>>
    ELSE whileSlots(interval.start, interval.end - serviceDurationMinutes,
                    Max(slotStepMinutes, 1))

RECURSIVE generateSlots(_, _, _)
generateSlots(freeIntervals, serviceDurationMinutes, slotStepMinutes) ==
    IF Len(freeIntervals) = 0 THEN <<>>
    ELSE slotsOfInterval(Head(freeIntervals), serviceDurationMinutes, slotStepMinutes)
         \o generateSlots(Tail(freeIntervals), serviceDurationMinutes, slotStepMinutes)

\* arguments of a call: the working ranges are one proper range or two
\* proper ranges that do not overlap, in either order; the busy ranges are
\* any list of at most two ranges, empty and inverted ranges included
Points == 0 .. MaxPoint
AnyRanges == {Range(a, b) : a \in Points, b \in Points}
ProperRanges == {r \in AnyRanges : r.start < r.end}
WorkingLists ==
    {<<w>> : w \in ProperRanges}
    \cup {<<pr[1], pr[2]>> :
            pr \in {x \in ProperRanges \X ProperRanges :
                       x[2].start >= x[1].end \/ x[2].end <= x[1].start}}
BusyLists ==
    {<<>>} \cup {<<b>> : b \in AnyRanges} \cup {<<b1, b2>> : b1 \in AnyRanges, b2 \in AnyRanges}
Durations == {1, 2}
Steps == {0, 2}

InitIntervals ==
    /\ StoreAtRest
    /\ ca \in {[fn |-> "generateSlots", W |-> W, B |-> B, called |-> FALSE,
                 duration |-> 0, step |-> 0, free |-> <<>>, slots |-> <<>>] :
                 W \in WorkingLists, B \in BusyLists}

\* generateSlots(calculateFreeIntervals(W, B), duration, step)
SlotsCall ==
    /\ ~ca.called
    /\ \E duration \in Durations, step \in Steps :
        LET free == calculateFreeIntervals(ca.W, ca.B)
        IN ca' = [ca EXCEPT !.called = TRUE, !.duration = duration, !.step = step,
                            !.free = free,
                            !.slots = generateSlots(free, duration, step)]
    /\ UNCHANGED storeVars

NextIntervals == SlotsCall

SpecIntervals == InitIntervals /\ [][NextIntervals]_vars

\* generateSlots called on its own: the free intervals are any list of at
\* most two ranges, empty and inverted ranges included, in any order
FreeLists ==
    {<<>>} \cup {<<f>> : f \in AnyRanges} \cup {<<f1, f2>> : f1 \in AnyRanges, f2 \in AnyRanges}
SlotDurations == {1, 2, 3}
SlotSteps == {-1, 0, 1, 2}

InitGenerate ==
    /\ StoreAtRest
    /\ ca \in {[fn |-> "generateSlots", freeIntervals |-> F, called |-> FALSE,
                 duration |-> 0, step |-> 0, slots |-> <<>>] : F \in FreeLists}

\* generateSlots(freeIntervals, duration, step)
GenerateCall ==
    /\ ~ca.called
    /\ \E duration \in SlotDurations, step \in SlotSteps :
        ca' = [ca EXCEPT !.called = TRUE, !.duration = duration, !.step = step,
                         !.slots = generateSlots(ca.freeIntervals, duration, step)]
    /\ UNCHANGED storeVars

NextGenerate == GenerateCall

SpecGenerate == InitGenerate /\ [][NextGenerate]_vars

----------------------------------------------------------------------------
(* GET /api/slots *)

\* no staffId parameter
NoStaff == 0

\* staff_services rows: both staff members perform service 1, staff 1
\* performs service 2 as well
staffServices == {<<1, 1>>, <<1, 2>>, <<2, 1>>}

\* place of a staff member in ORDER BY st.name: staff 2 sorts before staff 1
nameRank(staffId) == IF staffId = 2 THEN 1 ELSE 2

RECURSIVE orderByName(_)
orderByName(S) ==
    IF S = {} THEN <<>>
    ELSE LET f == CHOOSE x \in S : \A y \in S : nameRank(x) <= nameRank(y)
         IN <<f>> \o orderByName(S \ {f})

\* the eligible staff query: active staff performing the service, the
\* requested one only when staffId is given, ordered by name
eligibleStaff(serviceId, parsedStaffId, rows) ==
    orderByName({x \in StaffIds :
                   /\ <<x, serviceId>> \in staffServices
                   /\ rows[x].is_active
                   /\ (parsedStaffId # NoStaff => x = parsedStaffId)})

\* the rows of a result set as a list (by start, then end)
RECURSIVE listOf(_)
listOf(S) ==
    IF S = {} THEN <<>>
    ELSE LET f == CHOOSE x \in S : \A y \in S :
                    x.start < y.start \/ (x.start = y.start /\ x.end <= y.end)
         IN <<f>> \o listOf(S \ {f})

\* a busy block in minutes of the target day, cut to the day
toDayMinutes(block, dayStartLocal, tz) ==
    LET blockStartMinutes == toLocal(block.start, tz) - dayStartLocal
        blockEndMinutes == toLocal(block.end, tz) - dayStartLocal
    IN Range(Max(blockStartMinutes, 0), Min(blockEndMinutes, DayMinutes))

\* .map(..).filter(Boolean): the blocks that meet the day
busyMinutes(blocks, dayStartLocal, tz) ==
    listOf({r \in {toDayMinutes(b, dayStartLocal, tz) : b \in blocks} : r.start < r.end})

\* the calendar blocks of the day: none when the check failed (null)
gcalMinutes(gcalBusyBlocksUTC, dayStartLocal, tz) ==
    IF gcalBusyBlocksUTC.isNull THEN <<>>
    ELSE busyMinutes(gcalBusyBlocksUTC.blocks, dayStartLocal, tz)

\* slot step of the listing
SlotStep == 15

NoSlots == [starts |-> <<>>, isNull |-> FALSE, grant |-> FALSE]

\* the computation for one staff member: the slot starts in minutes of the
\* day (isNull: the calendar check failed; grant: it met invalid_grant)
staffSlots(staffId, serviceId, date, tz, c, bk, st) ==
    LET staffDetails == getStaffDetails(staffId, st, c.staffQ)
        dayStartLocal == date * DayMinutes
        dayOfWeek == isoWeekday(dayStartLocal)
        dayStartUTC == fromLocal(date, 0, tz)
        dayEndUTC == fromLocal(date, DayMinutes, tz)
    IN
    IF ~staffDetails.found \/ ~staffDetails.is_active THEN NoSlots
    ELSE
    LET workingInterval == getWorkingInterval(staffId, dayOfWeek, c.whQ)
    IN
    IF ~workingInterval.found THEN NoSlots
    ELSE
    LET workingStartMins == timeToMinutes(workingInterval.start)
        workingEndMins == timeToMinutes(workingInterval.end)
    IN
    IF workingStartMins < 0 \/ workingEndMins <= workingStartMins THEN NoSlots
    ELSE
    LET dbBusyMinutes ==
            busyMinutes(getDbBusyBlocks(staffId, dayStartUTC, dayEndUTC, bk, c.dbQ,
                                        NoExclude), dayStartLocal, tz)
        gcalBusyBlocksUTC == getGcalBusyBlocks(staffDetails, st[staffId].token, c.gcal)
        allBusyMinutes == dbBusyMinutes \o gcalMinutes(gcalBusyBlocksUTC, dayStartLocal, tz)
        freeIntervals == calculateFreeIntervals(
                             <<Range(workingStartMins, workingEndMins)>>, allBusyMinutes)
    IN [starts |-> generateSlots(freeIntervals, serviceDuration(serviceId), SlotStep),
        isNull |-> gcalBusyBlocksUTC.isNull,
        grant |-> gcalBusyBlocksUTC.grant]

\* availableMinutes.map(..): the slots of one staff member
slotsOf(starts, staffId) ==
    [k \in 1..Len(starts) |-> [time |-> formatTime(starts[k]), staffId |-> staffId]]

\* allSlots: the slots of the eligible staff in their order
RECURSIVE allSlotsOf(_, _)
allSlotsOf(staffList, perStaff) ==
    IF Len(staffList) = 0 THEN <<>>
    ELSE slotsOf(perStaff[Head(staffList)].starts, Head(staffList))
         \o allSlotsOf(Tail(staffList), perStaff)

\* slotsByTime after one more slot: the staff of each time in order of
\* arrival, each staff member once
addSlot(groups, slot) ==
    IF \E g \in DOMAIN groups : groups[g].time = slot.time
    THEN LET g == CHOOSE x \in DOMAIN groups : groups[x].time = slot.time
         IN IF \E k \in DOMAIN groups[g].staffList : groups[g].staffList[k] = slot.staffId
            THEN groups
            ELSE [groups EXCEPT ![g].staffList = Append(@, slot.staffId)]
    ELSE Append(groups, [time |-> slot.time, staffList |-> <<slot.staffId>>])

RECURSIVE slotsByTime(_, _)
slotsByTime(allSlots, groups) ==
    IF Len(allSlots) = 0 THEN groups
    ELSE slotsByTime(Tail(allSlots), addSlot(groups, Head(allSlots)))

pickStaff_last(staffList) == staffList[Len(staffList)]

\* without a requested staff member: the first staff found for the time
pickStaff(staffList) == staffList[1]

\* the entry of one time: the requested staff member when one is given and
\* is in the list (no entry otherwise), else the picked one
RECURSIVE publicSlots(_, _)
publicSlots(groups, parsedStaffId) ==
    IF Len(groups) = 0 THEN <<>>
    ELSE LET g == Head(groups)
             rest == publicSlots(Tail(groups), parsedStaffId)
         IN IF parsedStaffId # NoStaff
            THEN IF \E k \in DOMAIN g.staffList : g.staffList[k] = parsedStaffId
                 THEN <<[time |-> g.time, staffId |-> parsedStaffId]>> \o rest
                 ELSE rest
            ELSE <<[time |-> g.time, staffId |-> pickStaff(g.staffList)]>> \o rest

\* rank of a character in a comparison of time strings
charRank(ch) == IF isDigit(ch) THEN digitValue(ch) + 1 ELSE 0

\* a.localeCompare(b) < 0 for strings of digits and colons
RECURSIVE strLess(_, _)
strLess(a, b) ==
    IF Len(b) = 0 THEN FALSE
    ELSE IF Len(a) = 0 THEN TRUE
    ELSE IF charRank(Head(a)) # charRank(Head(b))
    THEN charRank(Head(a)) < charRank(Head(b))
    ELSE strLess(Tail(a), Tail(b))

\* .sort((a, b) => a.time.localeCompare(b.time)): a stable sort by time
RECURSIVE insertByTime(_, _)
insertByTime(sorted, x) ==
    IF Len(sorted) = 0 THEN <<x>>
    ELSE IF ~strLess(x.time, sorted[Len(sorted)].time) THEN Append(sorted, x)
    ELSE Append(insertByTime(SubSeq(sorted, 1, Len(sorted) - 1), x),
                sorted[Len(sorted)])

RECURSIVE sortByTime(_)
sortByTime(list) ==
    IF Len(list) = 0 THEN <<>>
    ELSE insertByTime(sortByTime(SubSeq(list, 1, Len(list) - 1)), list[Len(list)])

\* finalSlots
finalSlots(allSlots, parsedStaffId) ==
    sortByTime(publicSlots(slotsByTime(allSlots, <<>>), parsedStaffId))

\* the outcomes met by the computation of one staff member
StaffOutcomes ==
    {[staffQ |-> "ok", whQ |-> c.whQ, dbQ |-> c.dbQ, gcal |-> c.gcal] : c \in CallOutcomes}
    \cup {[staffQ |-> "fail", whQ |-> "ok", dbQ |-> "ok", gcal |-> [kind |-> "ok", busy |-> {}]]}

NoListing == [fn |-> "slots", called |-> FALSE, serviceId |-> 0, parsedStaffId |-> NoStaff,
              date |-> 0, eligible |-> <<>>,
              perStaff |-> [x \in StaffIds |-> NoSlots],
              status |-> 0, result |-> <<>>]

\* the store of a listing: one booking of either staff member at 06:00 or
\* 12:00 of the day, confirmed or cancelled, and any calendar links
InitSlots ==
    /\ bookings \in {[b \in BookingIds |-> IF b = 1 THEN row ELSE NoRow] : row \in SeedRows}
    /\ nextId = 2
    /\ staffRow \in {[x \in StaffIds |->
                        IF x = 1 THEN [is_active |-> a, token |-> t1, calId |-> t1]
                        ELSE [is_active |-> TRUE, token |-> t2, calId |-> t2]] :
                     a \in BOOLEAN, t1 \in BOOLEAN, t2 \in BOOLEAN}
    /\ staffLock = [x \in StaffIds |-> 0]
    /\ svcLock = [sv \in ServiceIds |-> 0]
    /\ bkLock = [b \in BookingIds |-> 0]
    /\ endLocalBound = TRUE
    /\ req = [r \in Req |-> IdleReq]
    /\ customers = {"ANN@x", "bob@x"}
    /\ ca = NoListing

\* one request: 500 without a business timezone, 404 without the active
\* service, else the list (empty without eligible staff)
ListSlots ==
    /\ ~ca.called
    /\ \E serviceId \in ServiceIds \cup {InactiveService},
          parsedStaffId \in {NoStaff} \cup StaffIds \cup {MissingStaff},
          date \in {0, 1}, envTz \in {BusinessTz, BadTz},
          c \in [StaffIds -> StaffOutcomes] :
        LET q == [ca EXCEPT !.called = TRUE, !.serviceId = serviceId,
                            !.parsedStaffId = parsedStaffId, !.date = date]
            eligible == eligibleStaff(serviceId, parsedStaffId, staffRow)
            perStaff == [x \in StaffIds |->
                           IF \E k \in DOMAIN eligible : eligible[k] = x
                           THEN staffSlots(x, serviceId, date, envTz, c[x],
                                           bookings, staffRow)
                           ELSE NoSlots]
        IN
        IF configError(envTz)
        THEN /\ ca' = [q EXCEPT !.status = 500]
             /\ UNCHANGED staffRow
        ELSE IF ~serviceActive(serviceId)
        THEN /\ ca' = [q EXCEPT !.status = 404]
             /\ UNCHANGED staffRow
        ELSE /\ ca' = [q EXCEPT !.status = 200, !.eligible = eligible,
                                !.perStaff = perStaff,
                                !.result = finalSlots(allSlotsOf(eligible, perStaff),
                                                      parsedStaffId)]
             /\ staffRow' = [x \in StaffIds |->
                               IF perStaff[x].grant
                               THEN [staffRow[x] EXCEPT !.token = FALSE, !.calId = FALSE]
                               ELSE staffRow[x]]
    /\ UNCHANGED <<bookings, nextId, staffLock, svcLock, bkLock, endLocalBound, req,
                   customers>>

NextSlots == ListSlots

SpecSlots == InitSlots /\ [][NextSlots]_vars

----------------------------------------------------------------------------
(* A listing followed by the check a booking of a listed slot runs, over a
   store at rest: every query succeeds and every linked calendar answers
   with its busy list, the same one to both *)

ReachableOutcomes ==
    {[staffQ |-> "ok", whQ |-> "ok", dbQ |-> "ok", gcal |-> [kind |-> "ok", busy |-> B]] :
        B \in BusyChoices}

NoChecked == [NoListing EXCEPT !.fn = "slots, checkAvailability"] @@
             [world |-> [x \in StaffIds |-> CHOOSE c \in ReachableOutcomes : TRUE],
              checked |-> FALSE, slot |-> 0, o |-> NoCall.o, res |-> NoResult]

InitAgree ==
    /\ bookings \in {[b \in BookingIds |-> IF b = 1 THEN row ELSE NoRow] : row \in SeedRows}
    /\ nextId = 2
    /\ staffRow \in {[x \in StaffIds |->
                        IF x = 1 THEN [is_active |-> a, token |-> t1, calId |-> t1]
                        ELSE [is_active |-> TRUE, token |-> t2, calId |-> t2]] :
                     a \in BOOLEAN, t1 \in BOOLEAN, t2 \in BOOLEAN}
    /\ staffLock = [x \in StaffIds |-> 0]
    /\ svcLock = [sv \in ServiceIds |-> 0]
    /\ bkLock = [b \in BookingIds |-> 0]
    /\ endLocalBound \in BOOLEAN
    /\ req = [r \in Req |-> IdleReq]
    /\ customers = {"ANN@x", "bob@x"}
    /\ ca \in {[NoChecked EXCEPT !.world = w] : w \in [StaffIds -> ReachableOutcomes]}

\* GET slots while the calendars answer
ListReachable ==
    /\ ~ca.called
    /\ \E serviceId \in ServiceIds \cup {InactiveService},
          parsedStaffId \in {NoStaff} \cup StaffIds \cup {MissingStaff},
          date \in {0, 1}, envTz \in {BusinessTz, BadTz} :
        LET q == [ca EXCEPT !.called = TRUE, !.serviceId = serviceId,
                            !.parsedStaffId = parsedStaffId, !.date = date]
            eligible == eligibleStaff(serviceId, parsedStaffId, staffRow)
            perStaff == [x \in StaffIds |->
                           IF \E k \in DOMAIN eligible : eligible[k] = x
                           THEN staffSlots(x, serviceId, date, envTz, ca.world[x],
                                           bookings, staffRow)
                           ELSE NoSlots]
        IN
        IF configError(envTz)
        THEN ca' = [q EXCEPT !.status = 500]
        ELSE IF ~serviceActive(serviceId)
        THEN ca' = [q EXCEPT !.status = 404]
        ELSE ca' = [q EXCEPT !.status = 200, !.eligible = eligible,
                             !.perStaff = perStaff,
                             !.result = finalSlots(allSlotsOf(eligible, perStaff),
                                                   parsedStaffId)]
    /\ UNCHANGED storeVars

\* the check of POST /api/bookings for a listed slot: the date of the
\* listing and the time of the slot read in the business timezone, the
\* duration of the service, the staff row as the route fetched it
CheckListed ==
    /\ ca.called /\ ca.status = 200 /\ ~ca.checked
    /\ \E k \in DOMAIN ca.result :
        LET slot == ca.result[k]
            bookingStartTimeUTC == fromLocal(ca.date, timeToMinutes(timeStrOf(slot.time)),
                                             BusinessTz)
            o == [staffId |-> slot.staffId, startT |-> bookingStartTimeUTC,
                  endT |-> bookingStartTimeUTC + serviceDuration(ca.serviceId),
                  bookingTimezone |-> BusinessTz,
                  staffDetails |-> getStaffDetails(slot.staffId, staffRow, "ok"),
                  bookingIdToExclude |-> NoExclude]
            w == ca.world[slot.staffId]
            e == [envTz |-> BusinessTz, endLocalBound |-> endLocalBound,
                  staffQ |-> w.staffQ, whQ |-> w.whQ, dbQ |-> w.dbQ, gcal |-> w.gcal]
        IN ca' = [ca EXCEPT !.checked = TRUE, !.slot = k, !.o = o,
                            !.res = checkAvailability(o, e, bookings, staffRow)]
    /\ UNCHANGED storeVars

NextAgree == ListReachable \/ CheckListed

SpecAgree == InitAgree /\ [][NextAgree]_vars

----------------------------------------------------------------------------
(* Properties of the write path (Spec) *)

C3_NoLockAcrossCalendarCall ==
    \A r \in Req :
        req[r].pc = "mirror" =>
            /\ \A s \in StaffIds : staffLock[s] # r
            /\ \A sv \in ServiceIds : svcLock[sv] # r
            /\ \A b \in BookingIds : bkLock[b] # r

----------------------------------------------------------------------------
(* Properties of checkAvailability (SpecCA) *)

C6_AvailableIffNoReasons ==
    ca.called => (ca.res.isAvailable <=> Len(ca.res.reasons) = 0)

\* a call that failed inside and answered from its catch block
C6_Witness ==
    /\ ca.called
    /\ ~ca.res.isAvailable
    /\ ca.res.reasons = <<R_INTERNAL>>

----------------------------------------------------------------------------
(* Further properties of the write path (Spec) *)

----------------------------------------------------------------------------
(* Properties of the admin routes (SpecAdmin) *)

C13_RescheduleFrame ==
    /\ [][\A r \in Req :
            (/\ req[r].kind = "reschedule"
             /\ req[r].pc = "lockStaff"
             /\ req'[r].pc # "lockStaff")
            => LET b == req[r].bid
                   refused == \/ bookings[b].status \in {"cancelled", "completed", "no-show"}
                              \/ Len(req'[r].res.reasons) > 0
               IN /\ refused =>
                        /\ req'[r].pc \in {"done", "clearTok"}
                        /\ req'[r].pc = "done" => req'[r].status = 409
                        /\ req'[r].write = "none"
                        /\ ~req'[r].committed
                        /\ bookings' = bookings
                        /\ req'[r].pc = "done" =>
                              /\ \A s \in StaffIds : staffLock'[s] # r
                              /\ \A sv \in ServiceIds : svcLock'[sv] # r
                              /\ bkLock'[b] # r
                  /\ req'[r].write = "move" =>
                        /\ req'[r].res.isAvailable
                        /\ Len(req'[r].res.reasons) = 0]_vars
    /\ [][\A b \in BookingIds :
            (/\ bookings[b].status # "absent"
             /\ \/ bookings'[b].start # bookings[b].start
                \/ bookings'[b].end # bookings[b].end)
            => \E r \in Req :
                  /\ req'[r].kind = "reschedule" /\ req'[r].bid = b
                  /\ ~req[r].committed /\ req'[r].committed
                  /\ req'[r].res.isAvailable
                  /\ bookings'[b].start = req'[r].startT
                  /\ bookings'[b].end = req'[r].endT]_vars
    /\ [](\A r \in Req :
            (req[r].kind = "reschedule" /\ req[r].pc = "done" /\ ~req[r].committed)
            => req[r].status \in {400, 409, 500})

\* a reschedule refused for a calendar reason: the booking keeps its interval
\* and its notes
C13_Witness ==
    \E r \in Req :
        /\ req[r].kind = "reschedule" /\ req[r].pc = "done"
        /\ req[r].status = 409 /\ req[r].bid = 1
        /\ Len(req[r].res.reasons) > 0
        /\ req[r].startT # bookings[1].start
        /\ bookings[1].start = SeedRow.start /\ bookings[1].end = SeedRow.end
        /\ bookings[1].notes = 0
        /\ bkLock[1] = 0

\* C14: a create that ends without committing (refused as unavailable with
\* 409, or stopped by a failing query or an invalid date before COMMIT)
\* leaves the bookings table and the customers table exactly as they were
\* when it ended and holds no row lock afterwards; a create refused as
\* unavailable never commits; a customer row or a booking row enters the
\* store only in the commit of a create answered 201
C14_CreateRollback ==
    /\ [][\A r \in Req :
            (/\ req[r].kind = "create"
             /\ req[r].pc # "done" /\ req'[r].pc = "done"
             /\ ~req'[r].committed)
            => /\ bookings' = bookings
               /\ customers' = customers
               /\ req'[r].status \in {400, 409, 500}
               /\ \A s \in StaffIds : staffLock'[s] # r
               /\ \A sv \in ServiceIds : svcLock'[sv] # r]_vars
    /\ [][\A r \in Req :
            (/\ req[r].kind = "create" /\ req[r].pc = "lockStaff"
             /\ Len(req'[r].res.reasons) > 0)
            => /\ ~req'[r].committed /\ req'[r].write = "none"
               /\ bookings' = bookings /\ customers' = customers
               /\ req'[r].pc = "done" => req'[r].status = 409]_vars
    /\ [][customers' # customers
          => \E r \in Req :
                /\ ~req[r].committed /\ req'[r].committed
                /\ req'[r].status = 201
                /\ customers' = customers \cup {req'[r].newCust}]_vars
    /\ [][\A b \in BookingIds :
            (bookings[b].status = "absent" /\ bookings'[b].status # "absent")
            => \E r \in Req :
                  /\ ~req[r].committed /\ req'[r].committed
                  /\ req'[r].status = 201
                  /\ req'[r].bid = b /\ req'[r].write = "insert"]_vars

\* a create for a customer the store does not hold is refused as
\* unavailable after it inserted the customer row; another one is stopped by
\* the invalid date after the insert
C14_Witness ==
    \E r1, r2 \in Req :
        /\ req[r1].kind = "create" /\ req[r1].pc = "done" /\ req[r1].status = 409
        /\ req[r1].newCust = "bob@x" /\ Len(req[r1].res.reasons) > 0
        /\ req[r2].kind = "create" /\ req[r2].pc = "done" /\ req[r2].status = 400
        /\ req[r2].newCust = "bob@x" /\ req[r2].badDate
        /\ customers = {"ANN@x"}
        /\ \A b \in BookingIds \ {1} : bookings[b].status = "absent"

\* C15: a call of checkAvailability whose bookingTimezone names no zone
\* returns isAvailable = false with the configuration-error reason alone and
\* has evaluated no stage (no working-hours, bookings or calendar query)
C15_GivenTimezoneFailsClosed ==
    (ca.called /\ ~tzZone(ca.o.bookingTimezone))
    => /\ ~ca.res.isAvailable
       /\ ca.res.reasons = <<R_CONFIG>>
       /\ ca.res.calls = <<>>

\* C20: for every integer m from 0 to 1439, timeToMinutes applied to the
\* string formatTime(m) gives m back
C20_FormatRoundTrip ==
    (ca.called /\ ca.m \in MinutesOfDay) => ca.back = ca.m

\* the last minute of the day is written 23:59 and read back as 1439
C20_Witness ==
    /\ ca.called /\ ca.m = 1439
    /\ ca.str = <<"2", "3", ":", "5", "9">>
    /\ ca.back = 1439

\* point p lies in the half-open range r
inRange(p, r) == r.start <= p /\ p < r.end

C19_SlotsFit ==
    ca.called =>
        \A k \in DOMAIN ca.slots :
            LET s == ca.slots[k]
            IN /\ \E i \in DOMAIN ca.free :
                     ca.free[i].start <= s /\ s + ca.duration <= ca.free[i].end
               /\ \A j \in DOMAIN ca.B, p \in s .. (s + ca.duration - 1) :
                     ~inRange(p, ca.B[j])

\* slots of length 2 in steps of 2 around a busy range: the start 3 is
\* not offered because it would end after the working range
C19_Witness ==
    /\ ca.called
    /\ ca.W = <<Range(0, 4)>>
    /\ ca.B = <<Range(0, 1)>>
    /\ ca.duration = 2 /\ ca.step = 2
    /\ ca.free = <<Range(1, 4)>>
    /\ ca.slots = <<1>>

\* C16: no slot of a listing is assigned to a staff member whose calendar
\* check failed during the listing, and such a staff member has no slot
\* starts at all
C16_UnverifiedContributesNothing ==
    (ca.called /\ ca.status = 200)
    => \A x \in StaffIds :
          ca.perStaff[x].isNull
          => /\ Len(ca.perStaff[x].starts) = 0
             /\ \A i \in DOMAIN ca.result : ca.result[i].staffId # x

\* minutes of a time string of the result
minutesOf(time) == timeToMinutes(timeStrOf(time))

\* the times the eligible staff offer in a listing
offeredTimes ==
    {formatTime(ca.perStaff[ca.eligible[k]].starts[j]) :
        <<k, j>> \in {y \in (DOMAIN ca.eligible) \X (0 .. DayMinutes) :
                         y[2] \in DOMAIN ca.perStaff[ca.eligible[y[1]]].starts}}

\* staff x offers the time
offers(x, time) ==
    \E j \in DOMAIN ca.perStaff[x].starts : formatTime(ca.perStaff[x].starts[j]) = time

\* C17: the list has exactly one slot for each time offered by an eligible
\* staff member and no other slot, in ascending order of time; without a
\* requested staff member the slot names the first staff member of the
\* eligible ordering who offers the time, with one every slot names the
\* requested staff member
C17_OneSlotPerTime ==
    (ca.called /\ ca.status = 200)
    => /\ {ca.result[i].time : i \in DOMAIN ca.result} = offeredTimes
       /\ Len(ca.result) = Cardinality(offeredTimes)
       /\ \A i, j \in DOMAIN ca.result :
             i < j => minutesOf(ca.result[i].time) < minutesOf(ca.result[j].time)
       /\ ca.parsedStaffId = NoStaff
          => \A i \in DOMAIN ca.result :
                \E k \in DOMAIN ca.eligible :
                   /\ ca.result[i].staffId = ca.eligible[k]
                   /\ offers(ca.eligible[k], ca.result[i].time)
                   /\ \A h \in 1..(k - 1) : ~offers(ca.eligible[h], ca.result[i].time)
       /\ ca.parsedStaffId # NoStaff
          => \A i \in DOMAIN ca.result : ca.result[i].staffId = ca.parsedStaffId

\* both staff members offer 06:00 and staff 1 offers later times too: the
\* 06:00 slot names staff 2, the first by name, the later ones staff 1
C17_Witness ==
    /\ ca.called /\ ca.status = 200 /\ ca.parsedStaffId = NoStaff
    /\ ca.eligible = <<2, 1>>
    /\ offers(1, <<"0", "6", ":", "0", "0">>) /\ offers(2, <<"0", "6", ":", "0", "0">>)
    /\ Len(ca.result) > 1
    /\ ca.result[1] = [time |-> <<"0", "6", ":", "0", "0">>, staffId |-> 2]
    /\ ca.result[2] = [time |-> <<"0", "6", ":", "1", "5">>, staffId |-> 1]

\* C21: a create or reschedule whose input is malformed (unknown timezone,
\* bad date or time) is answered in its first step: when it reports the
\* bad input it has not begun a transaction and holds no row lock
C21_MalformedBeforePersistence ==
    [][\A r \in Req :
         (/\ req[r].pc # "done" /\ req'[r].pc = "done"
          /\ req'[r].kind \in {"create", "reschedule"}
          /\ req'[r].status = 400
          /\ \/ req'[r].badDate
             \/ ~tzZone(req'[r].tz))
         => /\ req[r].pc = "idle"
            /\ \A sv \in ServiceIds : svcLock[sv] # r
            /\ \A x \in StaffIds : staffLock[x] # r]_vars

\* C22: a call for an active staff member with a working interval on the
\* local weekday of the start has the outside-working-hours reason exactly
\* when the start offset from local midnight is below the working start or
\* the end offset is above the working end
C22_OutsideHoursExact ==
    LET startLocal == toLocal(ca.o.startT, ca.o.bookingTimezone)
        endLocal == toLocal(ca.o.endT, ca.o.bookingTimezone)
        row == workingHoursRow(ca.o.staffId, isoWeekday(startLocal))
        startOffset == startLocal - startOfDay(startLocal)
        endOffset == endLocal - startOfDay(startLocal)
        hasOutside == \E i \in DOMAIN ca.res.reasons : ca.res.reasons[i] = R_OUTSIDE
    IN (/\ ca.called
        /\ tzZone(ca.e.envTz) /\ ca.o.bookingTimezone = BusinessTz
        /\ ca.res.reasons # <<R_STAFF>>
        /\ ca.e.whQ = "ok" /\ row.found)
       => (hasOutside <=> \/ startOffset < timeToMinutes(row.start)
                          \/ endOffset > timeToMinutes(row.end))

C24_SlotsExact ==
    LET F == ca.freeIntervals
        st == IF ca.step < 1 THEN 1 ELSE ca.step
        emits(i, k) == /\ F[i].end > F[i].start
                       /\ F[i].end - F[i].start >= ca.duration
                       /\ F[i].start + k * st + ca.duration <= F[i].end
        count(i) == Cardinality({k \in 0 .. MaxPoint : emits(i, k)})
        offset(i) == Cardinality({p \in (1 .. (i - 1)) \X (0 .. MaxPoint) : emits(p[1], p[2])})
    IN ca.called =>
         /\ Len(ca.slots) = offset(Len(F) + 1)
         /\ \A i \in DOMAIN F : \A k \in 0 .. MaxPoint :
               emits(i, k) => ca.slots[offset(i) + k + 1] = F[i].start + k * st
         /\ \A i \in DOMAIN F :
               (F[i].end <= F[i].start \/ F[i].end - F[i].start < ca.duration)
               => count(i) = 0

\* step 0 and duration 2 on the ranges [3, 3), [1, 4): the empty range gives
\* nothing and the other one the starts 1 and 2, the last ending at 4
C24_Witness ==
    /\ ca.called /\ ca.step = 0 /\ ca.duration = 2
    /\ ca.freeIntervals = <<Range(3, 3), Range(1, 4)>>
    /\ ca.slots = <<1, 2>>

\* C25: formatTime of an integer m >= 0 is the two-digit hour, a colon and
\* the two-digit minute of m mod 1440, so the hour is 00..23 and the minute
\* 00..59; of a negative number, NaN, null, undefined or a string it is
\* "00:00"
C25_FormatTimeWraps ==
    LET digit(d) == DigitChars[d + 1]
        hhmm(t) == <<digit((t \div 60) \div 10), digit((t \div 60) % 10), ":",
                     digit((t % 60) \div 10), digit((t % 60) % 10)>>
        numeric == ca.arg.type = "number" /\ ~ca.arg.nan
    IN ca.called =>
         /\ (numeric /\ ca.arg.val >= 0)
            => /\ ca.str = hhmm(ca.arg.val % DayMinutes)
               /\ ca.str # <<"2", "4", ":", "0", "0">>
               /\ (ca.arg.val % DayMinutes) \div 60 \in 0 .. 23
         /\ (~numeric \/ ca.arg.val < 0)
            => ca.str = <<"0", "0", ":", "0", "0">>

\* formatTime(1501), a day and 61 minutes, is "01:01"
C25_Witness ==
    /\ ca.called /\ ca.arg = Num(DayMinutes + 61)
    /\ ca.str = <<"0", "1", ":", "0", "1">>

\* C26: timeToMinutes of a text of two or three colon-separated parts whose
\* first two are digits making an hour 0..23 and a minute 0..59 is
\* hour * 60 + minute, in 0..1439; of a missing or non-text argument, of a
\* text without a colon, of a text whose hour or minute part is not a
\* number written in digits, or is out of range, it is -1
C26_TimeToMinutesTotal ==
    LET parts == split(ca.arg.text)
        numeric(p) == Len(p) \in {1, 2} /\ \A i \in DOMAIN p : isDigit(p[i])
        value(p) == IF Len(p) = 1 THEN digitValue(p[1])
                    ELSE 10 * digitValue(p[1]) + digitValue(p[2])
        isText == ca.arg.type = "string" /\ Len(ca.arg.text) > 0
        shaped == isText /\ Len(parts) \in {2, 3}
        wellFormed == /\ shaped
                      /\ numeric(parts[1]) /\ numeric(parts[2])
                      /\ value(parts[1]) \in 0 .. 23
                      /\ value(parts[2]) \in 0 .. 59
    IN ca.called =>
         IF wellFormed
         THEN /\ ca.result = value(parts[1]) * 60 + value(parts[2])
              /\ ca.result \in 0 .. (DayMinutes - 1)
         ELSE ca.result = -1

C29_StatusUpdateKeepsInvariant ==
    /\ [](\A a \in BookingIds : \A b \in BookingIds :
            (/\ a # b
             /\ bookings[a].status = "confirmed" /\ bookings[b].status = "confirmed"
             /\ bookings[a].staff = bookings[b].staff)
            => ~(bookings[a].start < bookings[b].end /\ bookings[b].start < bookings[a].end))
    /\ [][\A b \in BookingIds :
            bookings[b].status \in TerminalStatuses => bookings'[b].status # "confirmed"]_vars

\* C30: with the store at rest and the calendars answering, the check of a
\* booking for a slot of the listing, on the date of the listing, for the
\* staff member of the slot and the duration of the service, answers that
\* the interval is available
C30_ListedSlotsAccepted ==
    ca.checked => ca.res.isAvailable

====
